---- MODULE Spec2Model ----
(***************************************************************************)
(* Model of blossom_wrapper.BlossomAPI (src/blossom_wrapper/__init__.py):  *)
(* construction, the low-level _call primitive with its CSRF priming GET,  *)
(* the verb helpers and the typed endpoint methods.                        *)
(*                                                                         *)
(* Strings that the code inspects character by character (paths, URLs) are *)
(* sequences of one-character strings; a name such as "submission" inside  *)
(* a path stands for a run of characters that holds no separator.          *)
(* Python dicts are functions from field names to strings; an optional     *)
(* argument is <<>> (None) or <<v>>.                                       *)
(***************************************************************************)
EXTENDS Integers, Sequences, FiniteSets, TLC

\* ---------------------------------------------------------------- bounds
\* Longest path (in characters) a caller hands to get/post/patch/delete.
MaxPathLen == 3

\* ------------------------------------------------------- value universes
Callers == {"c1", "c2"}

None == <<>>
Some(v) == <<v>>

PathChars == {"/", "a"}
Paths == UNION {[1..n -> PathChars] : n \in 0..MaxPathLen}

EmptyDict == [k \in {} |-> ""]

\* dict.update(other): keys of other win.
Update(d, other) ==
    [k \in (DOMAIN d) \cup (DOMAIN other) |->
        IF k \in DOMAIN other THEN other[k] ELSE d[k]]

\* Values the callers and the server use.
Emails == {"", "bot@grafeas"}
Passwords == {"", "pw"}
ApiKeys == {"", "key"}
NoCookie == ""
Tokens == {"t1", "t2"}

\* A URL is its authority (scheme and host, never ending in a separator)
\* and its path; the empty string is the URL with neither.
Url(netloc, path) == [netloc |-> netloc, path |-> path]
EmptyUrl == Url(<<>>, <<>>)
BaseSlash == Url(<<"h">>, <<"/", "v", "/">>)
BaseNoSlash == Url(<<"h">>, <<"/", "v">>)
BaseUrls == {EmptyUrl, BaseSlash, BaseNoSlash}

\* ------------------------------------------------------ urllib.parse.urljoin
RECURSIVE Split(_)
\* str.split("/")
Split(s) ==
    IF \A i \in 1..Len(s) : s[i] # "/" THEN <<s>>
    ELSE LET i == CHOOSE i \in 1..Len(s) :
                      s[i] = "/" /\ \A j \in 1..(i - 1) : s[j] # "/"
         IN <<SubSeq(s, 1, i - 1)>> \o Split(SubSeq(s, i + 1, Len(s)))

RECURSIVE Join(_)
\* "/".join(segments)
Join(segs) ==
    IF Len(segs) = 0 THEN <<>>
    ELSE IF Len(segs) = 1 THEN segs[1]
    ELSE segs[1] \o <<"/">> \o Join(Tail(segs))

\* segments[1:-1] = filter(None, segments[1:-1])
FilterMiddle(segs) ==
    IF Len(segs) <= 2 THEN segs
    ELSE <<segs[1]>>
         \o SelectSeq(SubSeq(segs, 2, Len(segs) - 1), LAMBDA x : x # <<>>)
         \o <<segs[Len(segs)]>>

\* urlparse of a relative reference without scheme, query or fragment:
\* a leading "//" introduces an authority that runs to the next separator.
urlparse(url) ==
    IF Len(url) >= 2 /\ url[1] = "/" /\ url[2] = "/"
    THEN LET rest == SubSeq(url, 3, Len(url))
             cut == IF \E i \in 1..Len(rest) : rest[i] = "/"
                    THEN CHOOSE i \in 1..Len(rest) :
                             rest[i] = "/" /\ \A j \in 1..(i - 1) : rest[j] # "/"
                    ELSE Len(rest) + 1
         IN Url(SubSeq(rest, 1, cut - 1), SubSeq(rest, cut, Len(rest)))
    ELSE Url(<<>>, url)

\* urljoin(base, url) for paths without dot segments.
urljoin(base, url) ==
    LET u == urlparse(url) IN
    IF u.netloc # <<>> THEN u
    ELSE IF u.path = <<>> THEN base
    ELSE LET bsplit == Split(base.path)
             base_parts == IF bsplit[Len(bsplit)] # <<>>
                           THEN SubSeq(bsplit, 1, Len(bsplit) - 1)
                           ELSE bsplit
             segments == IF u.path[1] = "/" THEN Split(u.path)
                         ELSE FilterMiddle(base_parts \o Split(u.path))
             joined == Join(segments)
         IN Url(base.netloc, IF joined = <<>> THEN <<"/">> ELSE joined)

EndsInSlash(s) == Len(s) > 0 /\ s[Len(s)] = "/"
\* The URL as text ends in a separator (an authority never does).
UrlEndsInSlash(u) == EndsInSlash(u.path)


\* ------------------------------------------------------------ Python values
PyNone == [type |-> "NoneType", val |-> <<>>]
PyDict(name) == [type |-> "dict", val |-> <<name>>]
PyList(names) == [type |-> "list", val |-> names]

\* A response body is a JSON document: doc names the document as a whole,
\* results is the list under its "results" key when it has one.
Body(doc, hasResults, results) ==
    [doc |-> doc, hasResults |-> hasResults, results |-> results]
Bodies == {Body("obj42", FALSE, <<>>),
           Body("page0", TRUE, <<>>),
           Body("page2", TRUE, <<"r1", "r2">>)}

\* Status codes the server answers an endpoint method with: every code some
\* table enumerates, and codes no table enumerates below and above 400.
EndpointStatuses ==
    {200, 201, 202, 204, 400, 403, 404, 406, 409, 412, 422, 423, 428, 500}
\* Status codes the server answers a bare get/post/patch/delete with.
VerbStatuses == {200, 500}

Response(code, body, cookie) ==
    [status_code |-> code, body |-> body, cookie |-> cookie]
NoResponse == Response(0, Body("", FALSE, <<>>), NoCookie)

\* Response.json()
json(resp) == PyDict(resp.body.doc)

\* Response.raise_for_status() raises HTTPError for 4xx and 5xx.
raise_for_status(resp) == 400 <= resp.status_code /\ resp.status_code < 600

\* --------------------------------------------------- BlossomResponse values
BlossomResponse(data, status) ==
    [raised |-> "", status |-> status, data |-> data]
Raise(exc) == [raised |-> exc, status |-> "", data |-> PyNone]
RaiseForStatusElse(resp, value) ==
    IF raise_for_status(resp) THEN Raise("HTTPError") ELSE value
\* What a bare verb helper hands back is the raw response, not a Result.
RawResponse == [raised |-> "", status |-> "raw", data |-> PyNone]
NoResult == [raised |-> "", status |-> "", data |-> PyNone]

\* ------------------------------------------- endpoint methods: status mapping
\* Each operator is the part of the endpoint method that follows the request:
\* the Result it returns, or the exception it raises, for a response.

create_user(resp) ==
    IF resp.status_code = 201 THEN BlossomResponse(json(resp), "ok")
    ELSE IF resp.status_code = 422 THEN BlossomResponse(PyNone, "already_completed")
    ELSE RaiseForStatusElse(resp, BlossomResponse(PyNone, "ok"))

get_user_whole_list(resp) ==
    IF raise_for_status(resp) THEN Raise("HTTPError")
    ELSE IF ~resp.body.hasResults THEN Raise("KeyError")
    ELSE IF resp.body.results # <<>>
         THEN BlossomResponse(PyList(resp.body.results), "ok")
    ELSE BlossomResponse(PyNone, "not_found")

get_user(resp) ==
    IF raise_for_status(resp) THEN Raise("HTTPError")
    ELSE IF ~resp.body.hasResults THEN Raise("KeyError")
    ELSE IF resp.body.results # <<>>
         THEN BlossomResponse(PyDict(resp.body.results[1]), "ok")
    ELSE BlossomResponse(PyNone, "not_found")

accept_coc(resp) ==
    IF resp.status_code = 201 THEN BlossomResponse(PyNone, "ok")
    ELSE IF resp.status_code = 404 THEN BlossomResponse(PyNone, "not_found")
    ELSE IF resp.status_code = 409 THEN BlossomResponse(PyNone, "already_completed")
    ELSE RaiseForStatusElse(resp, BlossomResponse(PyNone, "ok"))

create_submission(resp) ==
    RaiseForStatusElse(resp, BlossomResponse(json(resp), "ok"))

get_submission(resp) ==
    IF raise_for_status(resp) THEN Raise("HTTPError")
    ELSE IF ~resp.body.hasResults THEN Raise("KeyError")
    ELSE IF resp.body.results # <<>>
         THEN BlossomResponse(PyList(resp.body.results), "ok")
    ELSE BlossomResponse(PyNone, "not_found")

delete_submission(resp) ==
    IF resp.status_code = 204 THEN BlossomResponse(PyNone, "ok")
    ELSE RaiseForStatusElse(resp, BlossomResponse(PyNone, "ok"))

create_transcription(resp) ==
    IF resp.status_code = 201 THEN BlossomResponse(json(resp), "ok")
    ELSE IF resp.status_code = 403 THEN BlossomResponse(PyNone, "coc_not_accepted")
    ELSE IF resp.status_code = 404 THEN BlossomResponse(PyNone, "not_found")
    ELSE RaiseForStatusElse(resp, BlossomResponse(PyNone, "ok"))

get_transcription(resp) ==
    IF raise_for_status(resp) THEN Raise("HTTPError")
    ELSE IF ~resp.body.hasResults THEN Raise("KeyError")
    ELSE IF resp.body.results # <<>>
         THEN BlossomResponse(PyList(resp.body.results), "ok")
    ELSE BlossomResponse(PyNone, "not_found")

claim(resp) ==
    IF resp.status_code = 201 THEN BlossomResponse(json(resp), "ok")
    ELSE IF resp.status_code = 403 THEN BlossomResponse(PyNone, "coc_not_accepted")
    ELSE IF resp.status_code = 404 THEN BlossomResponse(PyNone, "not_found")
    ELSE IF resp.status_code = 409 THEN BlossomResponse(PyNone, "already_completed")
    ELSE IF resp.status_code = 423 THEN BlossomResponse(PyNone, "blacklisted")
    ELSE RaiseForStatusElse(resp, BlossomResponse(PyNone, "ok"))

unclaim(resp) ==
    IF resp.status_code = 201 THEN BlossomResponse(json(resp), "ok")
    ELSE IF resp.status_code = 404 THEN BlossomResponse(PyNone, "not_found")
    ELSE IF resp.status_code = 406 THEN BlossomResponse(PyNone, "other_user")
    ELSE IF resp.status_code = 409 THEN BlossomResponse(PyNone, "already_completed")
    ELSE IF resp.status_code = 412 THEN BlossomResponse(PyNone, "missing_prerequisite")
    ELSE IF resp.status_code = 423 THEN BlossomResponse(PyNone, "blacklisted")
    ELSE RaiseForStatusElse(resp, BlossomResponse(PyNone, "ok"))

done_412_as_data_missing(resp) ==
    IF resp.status_code = 201 THEN BlossomResponse(json(resp), "ok")
    ELSE IF resp.status_code = 403 THEN BlossomResponse(PyNone, "coc_not_accepted")
    ELSE IF resp.status_code = 404 THEN BlossomResponse(PyNone, "not_found")
    ELSE IF resp.status_code = 409 THEN BlossomResponse(PyNone, "already_completed")
    ELSE IF resp.status_code = 412 THEN BlossomResponse(PyNone, "data_missing")
    ELSE IF resp.status_code = 423 THEN BlossomResponse(PyNone, "blacklisted")
    ELSE IF resp.status_code = 428 THEN BlossomResponse(PyNone, "data_missing")
    ELSE RaiseForStatusElse(resp, BlossomResponse(PyNone, "ok"))

done(resp) ==
    IF resp.status_code = 201 THEN BlossomResponse(json(resp), "ok")
    ELSE IF resp.status_code = 403 THEN BlossomResponse(PyNone, "coc_not_accepted")
    ELSE IF resp.status_code = 404 THEN BlossomResponse(PyNone, "not_found")
    ELSE IF resp.status_code = 409 THEN BlossomResponse(PyNone, "already_completed")
    ELSE IF resp.status_code = 412 THEN BlossomResponse(PyNone, "missing_prerequisite")
    ELSE IF resp.status_code = 423 THEN BlossomResponse(PyNone, "blacklisted")
    ELSE IF resp.status_code = 428 THEN BlossomResponse(PyNone, "data_missing")
    ELSE RaiseForStatusElse(resp, BlossomResponse(PyNone, "ok"))

get_ocr_transcriptions(resp) ==
    IF resp.status_code = 200 THEN BlossomResponse(json(resp), "ok")
    ELSE IF resp.status_code = 400
         THEN BlossomResponse(json(resp), "missing_prerequisite")
    ELSE RaiseForStatusElse(resp, BlossomResponse(PyNone, "ok"))

Endpoints == {"create_user", "get_user", "accept_coc", "create_submission",
              "get_submission", "delete_submission", "create_transcription",
              "get_transcription", "claim", "unclaim", "done",
              "get_ocr_transcriptions"}
Verbs == {"get", "post", "patch", "delete"}

\* The value a finished operation hands its caller.
Outcome(op, resp) ==
    CASE op = "create_user" -> create_user(resp)
      [] op = "get_user" -> get_user(resp)
      [] op = "accept_coc" -> accept_coc(resp)
      [] op = "create_submission" -> create_submission(resp)
      [] op = "get_submission" -> get_submission(resp)
      [] op = "delete_submission" -> delete_submission(resp)
      [] op = "create_transcription" -> create_transcription(resp)
      [] op = "get_transcription" -> get_transcription(resp)
      [] op = "claim" -> claim(resp)
      [] op = "unclaim" -> unclaim(resp)
      [] op = "done" -> done(resp)
      [] op = "get_ocr_transcriptions" -> get_ocr_transcriptions(resp)
      [] OTHER -> RawResponse

\* ------------------------------------------ endpoint methods: request building
\* What an endpoint method hands to its verb helper.
Req(op, method, path, data, params) ==
    [op |-> op, method |-> method, path |-> path, data |-> data, params |-> params]

Usernames == {"bob"}
SubmissionIds == {"42"}
Sources == {"", "imgur"}
Filters == {EmptyDict, [original_id |-> "abc"]}
PyBools == {"True", "False"}

SubmissionData ==
    [original_id |-> "abc", source |-> "reddit", tor_url |-> "tor",
     url |-> "orig", content_url |-> "img"]
TranscriptionData ==
    [original_id |-> "xyz", submission_id |-> "42", source |-> "reddit",
     text |-> "txt", url |-> "u", username |-> "bob",
     removed_from_reddit |-> "False"]

EndpointCalls ==
    {Req("create_user", "POST", <<"volunteer", "/">>,
         Some([username |-> u]), None) : u \in Usernames}
    \cup {Req("get_user", "GET", <<"volunteer", "/">>,
              None, Some([username |-> u])) : u \in Usernames}
    \cup {Req("accept_coc", "POST", <<"volunteer", "/", "accept_coc", "/">>,
              None, Some([username |-> u])) : u \in Usernames}
    \cup {Req("create_submission", "POST", <<"submission", "/">>,
              Some(SubmissionData), None)}
    \cup {Req("get_submission", "GET", <<"submission", "/">>,
              None, Some(f)) : f \in Filters}
    \cup {Req("delete_submission", "DELETE", <<"submission", "/", id, "/">>,
              None, None) : id \in SubmissionIds}
    \cup {Req("create_transcription", "POST", <<"transcription", "/">>,
              Some(TranscriptionData), None)}
    \cup {Req("get_transcription", "GET", <<"transcription", "/">>,
              None, Some(f)) : f \in Filters}
    \cup {Req("claim", "PATCH", <<"submission", "/", id, "/", "claim", "/">>,
              Some([username |-> u]), None) :
              id \in SubmissionIds, u \in Usernames}
    \cup {Req("unclaim", "PATCH", <<"submission", "/", id, "/", "unclaim", "/">>,
              Some([username |-> u]), None) :
              id \in SubmissionIds, u \in Usernames}
    \cup {Req("done", "PATCH", <<"submission", "/", id, "/", "done", "/">>,
              Some([username |-> u, mod_override |-> m]), None) :
              id \in SubmissionIds, u \in Usernames, m \in PyBools}
    \cup {Req("get_ocr_transcriptions", "GET",
              <<"submission", "/", "get_transcribot_queue", "/">>, None,
              Some([source |-> IF s = "" THEN "reddit" ELSE s])) : s \in Sources}

\* get, post, patch and delete fix the method and pass the rest through.
VerbMethod(verb) ==
    CASE verb = "get" -> "GET"
      [] verb = "post" -> "POST"
      [] verb = "patch" -> "PATCH"
      [] verb = "delete" -> "DELETE"

\* Bodies and queries a caller hands to a bare verb helper.
CallerBodies ==
    {None, Some(EmptyDict), Some([username |-> "bob"]),
     Some([email |-> "mallory", password |-> "hunter2"]),
     Some([csrfmiddlewaretoken |-> "forged"])}
CallerParams == {None, Some([source |-> "reddit"])}

VerbCalls ==
    {Req(v, VerbMethod(v), p, d, q) :
        v \in Verbs, p \in Paths, d \in CallerBodies, q \in CallerParams}

\* The calls explored when two callers share the client at the same time.
SharedCalls ==
    {Req(v, VerbMethod(v), <<"a">>, None, None) : v \in {"get", "post"}}

\* ----------------------------------------------------------------- state
VARIABLES
    ctor,          \* the last BlossomAPI(...) attempt: its arguments and error
    client,        \* self: email, password, base_url, http.headers
    http_cookies,  \* self.http.cookies: the csrftoken cookie, or NoCookie
    serial,        \* the callers issue their calls strictly one after another
    calls          \* per caller: the frame of its call in progress

vars == <<ctor, client, http_cookies, serial, calls>>

NoClient ==
    [constructed |-> FALSE, email |-> "", password |-> "",
     base_url |-> EmptyUrl, headers |-> EmptyDict]

Idle ==
    [pc |-> "idle", op |-> "", method |-> "",
     argPath |-> <<>>, argData |-> None, argParams |-> None,
     path |-> <<>>, data |-> EmptyDict, params |-> EmptyDict,
     primed |-> NoCookie, before |-> NoCookie, raced |-> FALSE,
     sent |-> <<>>, resp |-> NoResponse, result |-> NoResult]

\* ------------------------------------------------------------ __init__
\* The ValueError message of the first failing check, or "" when all pass.
ConstructorError_no_key_check(email, password, api_key, api_base_url) ==
    IF email = "" THEN "Need an email address!"
    ELSE IF password = "" THEN "Need a password!"
    ELSE IF api_base_url = EmptyUrl THEN "Need to know the API base URL!"
    ELSE ""

ConstructorError(email, password, api_key, api_base_url) ==
    IF email = "" THEN "Need an email address!"
    ELSE IF password = "" THEN "Need a password!"
    ELSE IF api_key = "" THEN "Need an API key!"
    ELSE IF api_base_url = EmptyUrl THEN "Need to know the API base URL!"
    ELSE ""

Construct(email, password, api_key, api_base_url) ==
    /\ ~client.constructed
    /\ LET err == ConstructorError(email, password, api_key, api_base_url) IN
       /\ ctor' = [attempted |-> TRUE, email |-> email, password |-> password,
                   api_key |-> api_key, api_base_url |-> api_base_url,
                   error |-> err]
       /\ client' = IF err # "" THEN client
                    ELSE [constructed |-> TRUE, email |-> email,
                          password |-> password, base_url |-> api_base_url,
                          headers |-> [Authorization |-> api_key]]
    /\ UNCHANGED <<http_cookies, serial, calls>>

\* ---------------------------------------------------------------- _call
Credentials == [email |-> client.email, password |-> client.password]

\* data.update({"email": ..., "password": ...}) with keys kept when present
MergeCredentials_setdefault(data) == Update(Credentials, data)

\* data.update({"email": self.email, "password": self.password})
MergeCredentials(data) == Update(data, Credentials)

\* the leading separator is left in place
NormalizePath_keep_leading(path) ==
    IF ~EndsInSlash(path) THEN path \o <<"/">> ELSE path

\* path[1:] when it starts with "/", then a "/" appended unless it ends in one
NormalizePath(path) ==
    LET stripped == IF Len(path) > 0 /\ path[1] = "/" THEN Tail(path) ELSE path
    IN IF ~EndsInSlash(stripped) THEN stripped \o <<"/">> ELSE stripped

\* the token is added only when the body has none yet
WithCsrfToken_setdefault(data, token) ==
    Update([csrfmiddlewaretoken |-> token], data)

\* data.update({"csrfmiddlewaretoken": self.http.cookies.get("csrftoken")})
WithCsrfToken(data, token) == Update(data, [csrfmiddlewaretoken |-> token])

\* the response's cookie is dropped
StoreCookie_dropped(jar, cookie) == jar

\* The session keeps the csrftoken cookie of a response that sets one.
StoreCookie(jar, cookie) == IF cookie # NoCookie THEN cookie ELSE jar

\* Request(method=method, url=urljoin(self.base_url, path), data=data, params=params)
Request(method, path, data, params) ==
    [method |-> method, path |-> path, url |-> urljoin(client.base_url, path),
     data |-> data, params |-> params]

InFlight(f) == f.method # "GET" /\ f.pc \in {"primed", "checked", "ready"}

\* A response that changes the shared cookie reaches every other caller that
\* is between its priming GET and its real request.
Arrive(c, frame, jar) ==
    /\ http_cookies' = jar
    /\ calls' = [d \in Callers |->
                   IF d = c THEN frame
                   ELSE IF jar # http_cookies /\ InFlight(calls[d])
                        THEN [calls[d] EXCEPT !.raced = TRUE]
                   ELSE calls[d]]

\* Entry of _call through a verb helper or an endpoint method: the checks and
\* defaults that precede the request(s).
Begin(c) ==
    /\ client.constructed
    /\ calls[c].pc = "idle"
    /\ serial => \A d \in Callers : calls[d].pc = "idle"
    /\ \E r \in (IF serial THEN VerbCalls \cup EndpointCalls ELSE SharedCalls) :
          calls' = [calls EXCEPT ![c] =
             [Idle EXCEPT
                 !.pc = IF r.method # "GET" THEN "started" ELSE "ready",
                 !.op = r.op, !.method = r.method,
                 !.argPath = r.path, !.argData = r.data, !.argParams = r.params,
                 !.path = NormalizePath(r.path),
                 !.data = MergeCredentials(IF r.data # None THEN r.data[1]
                                           ELSE EmptyDict),
                 !.params = IF r.params # None THEN r.params[1] ELSE EmptyDict]]
    /\ UNCHANGED <<ctor, client, http_cookies, serial>>

\* self._call("GET", path, data, params): the priming request and its response.
Prime(c, cookie) ==
    LET f == calls[c]
        data == MergeCredentials(f.data)
        req == Request("GET", NormalizePath(f.path), data, f.params)
    IN /\ f.pc = "started"
       /\ Arrive(c, [f EXCEPT !.pc = "primed", !.data = data,
                              !.sent = Append(@, req),
                              !.primed = cookie, !.before = http_cookies],
                 StoreCookie(http_cookies, cookie))
       /\ UNCHANGED <<ctor, client, serial>>

\* if "csrftoken" in self.http.cookies
CheckCookie(c) ==
    /\ calls[c].pc = "primed"
    /\ calls' = [calls EXCEPT ![c].pc =
                    IF http_cookies # NoCookie THEN "checked" ELSE "ready"]
    /\ UNCHANGED <<ctor, client, http_cookies, serial>>

\* data.update({"csrfmiddlewaretoken": self.http.cookies.get("csrftoken")})
GetCookie(c) ==
    /\ calls[c].pc = "checked"
    /\ calls' = [calls EXCEPT ![c].pc = "ready",
                              ![c].data = WithCsrfToken(@, http_cookies)]
    /\ UNCHANGED <<ctor, client, http_cookies, serial>>

\* The responses the server may give to the request of an operation.
Responses(op) ==
    IF op \in Verbs
    THEN {Response(s, Body("obj42", FALSE, <<>>), k) :
             s \in VerbStatuses, k \in {NoCookie} \cup Tokens}
    ELSE {Response(s, b, k) :
             s \in EndpointStatuses, b \in Bodies, k \in {NoCookie} \cup Tokens}

\* The request proper, its response, and what the operation makes of it.
Send(c) ==
    LET f == calls[c]
        req == Request(f.method, f.path, f.data, f.params)
    IN /\ f.pc = "ready"
       /\ \E resp \in Responses(f.op) :
             Arrive(c, [f EXCEPT !.pc = "done", !.sent = Append(@, req),
                                 !.resp = resp, !.result = Outcome(f.op, resp)],
                    StoreCookie(http_cookies, resp.cookie))
       /\ UNCHANGED <<ctor, client, serial>>

\* The operation has returned or raised; the caller is free for the next one.
Finish(c) ==
    /\ calls[c].pc = "done"
    /\ calls' = [calls EXCEPT ![c] = Idle]
    /\ UNCHANGED <<ctor, client, http_cookies, serial>>

Init ==
    /\ ctor = [attempted |-> FALSE, email |-> "", password |-> "",
               api_key |-> "", api_base_url |-> EmptyUrl, error |-> ""]
    /\ client = NoClient
    /\ http_cookies = NoCookie
    /\ serial \in BOOLEAN
    /\ calls = [c \in Callers |-> Idle]

Next ==
    \/ \E e \in Emails, p \in Passwords, k \in ApiKeys, b \in BaseUrls :
          Construct(e, p, k, b)
    \/ \E c \in Callers : Begin(c)
    \/ \E c \in Callers, k \in {NoCookie} \cup Tokens : Prime(c, k)
    \/ \E c \in Callers : CheckCookie(c)
    \/ \E c \in Callers : GetCookie(c)
    \/ \E c \in Callers : Send(c)
    \/ \E c \in Callers : Finish(c)

Spec == Init /\ [][Next]_vars

TypeOK ==
    /\ client.constructed \in BOOLEAN
    /\ http_cookies \in {NoCookie} \cup Tokens
    /\ \A c \in Callers :
          calls[c].pc \in {"idle", "started", "primed", "checked", "ready", "done"}

\* ================================================================ properties
Finished(c) == calls[c].pc = "done"
NonGet(c) == calls[c].method # "GET"
\* The csrfmiddlewaretoken field of a body, NoCookie when it has none.
CsrfField(data) ==
    IF "csrfmiddlewaretoken" \in DOMAIN data THEN data.csrfmiddlewaretoken
    ELSE NoCookie
\* The body the caller supplied, as a dict.
CallerDict(c) ==
    IF calls[c].argData # None THEN calls[c].argData[1] ELSE EmptyDict

\* The status tables of section 4.1 of the specification.
StatusTable(op) ==
    CASE op = "create_user" -> (201 :> "ok") @@ (422 :> "already_completed")
      [] op = "accept_coc" ->
            (201 :> "ok") @@ (404 :> "not_found") @@ (409 :> "already_completed")
      [] op = "delete_submission" -> (204 :> "ok")
      [] op = "create_transcription" ->
            (201 :> "ok") @@ (403 :> "coc_not_accepted") @@ (404 :> "not_found")
      [] op = "claim" ->
            (201 :> "ok") @@ (403 :> "coc_not_accepted") @@ (404 :> "not_found")
            @@ (409 :> "already_completed") @@ (423 :> "blacklisted")
      [] op = "unclaim" ->
            (201 :> "ok") @@ (404 :> "not_found") @@ (406 :> "other_user")
            @@ (409 :> "already_completed") @@ (412 :> "missing_prerequisite")
            @@ (423 :> "blacklisted")
      [] op = "done" ->
            (201 :> "ok") @@ (403 :> "coc_not_accepted") @@ (404 :> "not_found")
            @@ (409 :> "already_completed") @@ (412 :> "missing_prerequisite")
            @@ (423 :> "blacklisted") @@ (428 :> "data_missing")
      [] op = "get_ocr_transcriptions" ->
            (200 :> "ok") @@ (400 :> "missing_prerequisite")
TableEndpoints ==
    {"create_user", "accept_coc", "delete_submission", "create_transcription",
     "claim", "unclaim", "done", "get_ocr_transcriptions"}

\* C1: an endpoint method with a status table raises an HTTP-status-derived
\* error, and returns no Result, for every status code its table does not list.
C1_UnlistedStatusRaises ==
    \A c \in Callers :
        (/\ Finished(c)
         /\ calls[c].op \in TableEndpoints
         /\ calls[c].resp.status_code \notin DOMAIN StatusTable(calls[c].op))
        => calls[c].result.raised = "HTTPError"

\* C2: a non-GET call issues exactly two requests, a priming GET to the same
\* normalized path with the same body and query and then the real request; a
\* GET call issues exactly one request; nothing is sent again.
C2_PrimingThenReal ==
    \A c \in Callers :
        LET f == calls[c] IN
        /\ Len(f.sent) <= 2
        /\ (Finished(c) /\ ~NonGet(c)) =>
              /\ Len(f.sent) = 1
              /\ f.sent[1].method = "GET"
        /\ (Finished(c) /\ NonGet(c)) =>
              /\ Len(f.sent) = 2
              /\ f.sent[1].method = "GET"
              /\ f.sent[2].method = f.method
              /\ f.sent[1].path = f.sent[2].path
              /\ f.sent[1].url = f.sent[2].url
              /\ f.sent[1].params = f.sent[2].params
              /\ f.sent[1].data = Update(CallerDict(c), Credentials)

\* C3 as stated: in a non-GET call, after any earlier calls, the real request
\* carries the priming response's csrftoken as csrfmiddlewaretoken, and carries
\* no csrfmiddlewaretoken when the priming response has no csrftoken cookie.
C3_TokenFromPrimingOnly ==
    serial =>
        \A c \in Callers :
            (Finished(c) /\ NonGet(c)) =>
                LET real == calls[c].sent[2].data IN
                /\ calls[c].primed # NoCookie =>
                      /\ "csrfmiddlewaretoken" \in DOMAIN real
                      /\ real.csrfmiddlewaretoken = calls[c].primed
                /\ calls[c].primed = NoCookie =>
                      "csrfmiddlewaretoken" \notin DOMAIN real

\* C3 amended: in a non-GET call, after any earlier calls, the real request
\* carries the priming response's csrftoken as csrfmiddlewaretoken; when the
\* priming response has no csrftoken cookie it carries the csrftoken cookie the
\* session kept from an earlier response, and when the session holds none the
\* body has a csrfmiddlewaretoken only if the caller's body supplied it.
C3_TokenFromSession ==
    serial =>
        \A c \in Callers :
            (Finished(c) /\ NonGet(c)) =>
                LET real == calls[c].sent[2].data IN
                /\ calls[c].primed # NoCookie =>
                      /\ "csrfmiddlewaretoken" \in DOMAIN real
                      /\ real.csrfmiddlewaretoken = calls[c].primed
                /\ (calls[c].primed = NoCookie /\ calls[c].before # NoCookie) =>
                      /\ "csrfmiddlewaretoken" \in DOMAIN real
                      /\ real.csrfmiddlewaretoken = calls[c].before
                /\ (calls[c].primed = NoCookie /\ calls[c].before = NoCookie) =>
                      CsrfField(real) = CsrfField(CallerDict(c))

\* A call whose priming response set no cookie sends the token of an
\* earlier call.
C3_Witness ==
    /\ serial
    /\ \E c \in Callers :
          /\ Finished(c) /\ NonGet(c)
          /\ calls[c].primed = NoCookie
          /\ calls[c].before = "t1"
          /\ CsrfField(calls[c].sent[2].data) = "t1"

\* C4: every request sent, priming GETs included, has the stored email and
\* password in its body, whatever body the caller supplied.
C4_CredentialsInEveryBody ==
    \A c \in Callers :
        \A i \in 1..Len(calls[c].sent) :
            /\ calls[c].sent[i].data.email = ctor.email
            /\ calls[c].sent[i].data.password = ctor.password
            /\ ctor.email = client.email
            /\ ctor.password = client.password

\* A non-GET call whose caller tried to override the credentials has sent
\* both of its requests.
C4_Witness ==
    \E c \in Callers :
        /\ Finished(c) /\ NonGet(c)
        /\ calls[c].argData = Some([email |-> "mallory", password |-> "hunter2"])
        /\ Len(calls[c].sent) = 2

EmptyArgument ==
    \/ ctor.email = ""
    \/ ctor.password = ""
    \/ ctor.api_key = ""
    \/ ctor.api_base_url = EmptyUrl

\* C5: construction with an empty email, password, API key or base URL fails
\* with an error and yields no client; with four non-empty arguments it
\* succeeds.
C5_ConstructionContract ==
    /\ client.constructed =>
          /\ ctor.attempted
          /\ client.email # "" /\ client.password # ""
          /\ client.headers.Authorization # ""
          /\ client.base_url # EmptyUrl
    /\ ctor.attempted =>
          /\ EmptyArgument => (ctor.error # "" /\ ~client.constructed)
          /\ ~EmptyArgument =>
                /\ ctor.error = ""
                /\ client.constructed
                /\ client.email = ctor.email
                /\ client.password = ctor.password
                /\ client.base_url = ctor.api_base_url
                /\ client.headers.Authorization = ctor.api_key

\* Construction was tried with only the API key empty, and failed.
C5_Witness ==
    /\ ctor.attempted
    /\ ctor.api_key = ""
    /\ ctor.email # "" /\ ctor.password # "" /\ ctor.api_base_url # EmptyUrl
    /\ ctor.error = "Need an API key!"
    /\ ~client.constructed

\* C6: claim, unclaim and done return, for every status code of their table,
\* a Result with the listed tag, and on 201 its data is the response's JSON.
C6_ClaimUnclaimDoneTables ==
    \A c \in Callers :
        LET f == calls[c] IN
        (/\ Finished(c)
         /\ f.op \in {"claim", "unclaim", "done"}
         /\ f.resp.status_code \in DOMAIN StatusTable(f.op))
        => /\ f.result.raised = ""
           /\ f.result.status = StatusTable(f.op)[f.resp.status_code]
           /\ f.resp.status_code = 201 => f.result.data = PyDict(f.resp.body.doc)

\* done answered with 412, and claim or unclaim finished likewise.
C6_Witness ==
    \E c \in Callers :
        /\ Finished(c)
        /\ calls[c].op = "done"
        /\ calls[c].resp.status_code = 412
        /\ calls[c].result.status = "missing_prerequisite"

\* C7: a returned Result carries data only where the endpoint's table says so:
\* none with a tag other than ok, except get_ocr_transcriptions on 400; none
\* with ok for accept_coc and delete_submission; data with ok elsewhere.
C7_PayloadOnlyWhereDocumented ==
    \A c \in Callers :
        LET f == calls[c] IN
        (Finished(c) /\ f.op \in Endpoints /\ f.result.raised = "") =>
            /\ (f.result.status # "ok"
                /\ ~(f.op = "get_ocr_transcriptions" /\ f.resp.status_code = 400))
               => f.result.data = PyNone
            /\ (f.op = "get_ocr_transcriptions" /\ f.resp.status_code = 400)
               => f.result.data = PyDict(f.resp.body.doc)
            /\ (f.result.status = "ok"
                /\ f.op \in {"accept_coc", "delete_submission"})
               => f.result.data = PyNone
            /\ (f.result.status = "ok"
                /\ f.op \notin {"accept_coc", "delete_submission"})
               => f.result.data # PyNone

\* C8: get_user, get_submission and get_transcription, on a non-error status:
\* an empty results list gives (not_found, None); a non-empty one gives ok with
\* the first result (get_user) or the whole list (the other two).
C8_ResultsLookup ==
    \A c \in Callers :
        LET f == calls[c] IN
        (/\ Finished(c)
         /\ f.op \in {"get_user", "get_submission", "get_transcription"}
         /\ f.resp.status_code < 400
         /\ f.resp.body.hasResults)
        => /\ f.result.raised = ""
           /\ f.resp.body.results = <<>> =>
                 (f.result.status = "not_found" /\ f.result.data = PyNone)
           /\ f.resp.body.results # <<>> =>
                 /\ f.result.status = "ok"
                 /\ f.result.data =
                       IF f.op = "get_user" THEN PyDict(f.resp.body.results[1])
                       ELSE PyList(f.resp.body.results)

\* get_user found two users and returned the first.
C8_Witness ==
    \E c \in Callers :
        /\ Finished(c)
        /\ calls[c].op = "get_user"
        /\ calls[c].resp.body.results = <<"r1", "r2">>
        /\ calls[c].result = BlossomResponse(PyDict("r1"), "ok")

IsSegment(p) == \A i \in 1..Len(p) : p[i] # "/"
\* The segments p of which the path is "/p", "p" or "p/".
SegmentsOf(path) ==
    {p \in {path} \cup (IF path # <<>>
                        THEN {Tail(path), SubSeq(path, 1, Len(path) - 1)}
                        ELSE {}) :
        /\ IsSegment(p)
        /\ path \in {<<"/">> \o p, p, p \o <<"/">>}}

SameUrlForOneSeparator ==
    \A c \in Callers :
        \A p \in SegmentsOf(calls[c].argPath) :
            \A i \in 1..Len(calls[c].sent) :
                calls[c].sent[i].url = urljoin(client.base_url, p \o <<"/">>)

\* C9 as stated: "/p", "p" and "p/" are sent to the same URL, the base URL
\* joined with "p/", and the URL of every request ends in "/".
C9_EveryUrlEndsInSlash ==
    /\ SameUrlForOneSeparator
    /\ \A c \in Callers :
          \A i \in 1..Len(calls[c].sent) : UrlEndsInSlash(calls[c].sent[i].url)

\* C9 amended: "/p", "p" and "p/" are sent to the same URL, the base URL
\* joined with "p/"; the path every request joins to the base URL ends in "/",
\* and the URL ends in "/" unless that path is exactly "//".
C9_EveryPathEndsInSlash ==
    /\ SameUrlForOneSeparator
    /\ \A c \in Callers :
          \A i \in 1..Len(calls[c].sent) :
              LET r == calls[c].sent[i] IN
              /\ EndsInSlash(r.path)
              /\ r.path # <<"/", "/">> => UrlEndsInSlash(r.url)

\* A POST to "/a" has sent both requests to the base URL joined with "a/".
C9_Witness ==
    \E c \in Callers :
        /\ Finished(c) /\ NonGet(c)
        /\ calls[c].argPath = <<"/", "a">>
        /\ calls[c].sent[1].url = urljoin(client.base_url, <<"a", "/">>)
        /\ calls[c].sent[2].url = urljoin(client.base_url, <<"a", "/">>)

====
